---------------------------- MODULE Spec2Model ----------------------------
(***************************************************************************)
(* A model of crypto-cycle-top-indicators (backend):                       *)
(*   - PriceManager           (managers/price_manager.py)  : SpecAvg       *)
(*   - file_lock              (utils.py)                   : SpecLock      *)
(*   - HistoricalDataManager.get_missing_data and utils.get_missing_data    *)
(*                                                         : SpecBackfill  *)
(*   - HistoricalDataManager._wait_for_rate_limit          : SpecRate      *)
(*   - timestamp normalization of process_api_data         : SpecNorm      *)
(*   - fetch_historical_batch under backoff                : SpecFetch     *)
(*   - server.py: update_price and the two endpoints       : SpecServer    *)
(*   - file_lock called with a timeout                     : SpecLockTimeout *)
(*   - runs of the manager's get_missing_data, fair        : SpecManagerRun *)
(*                                                                         *)
(* Numbers are scaled so that the state space is finite and small; every   *)
(* scaled quantity keeps the name the source gives it and states the real  *)
(* value next to it.  Prices are integers (exact arithmetic); a moving     *)
(* average is kept as the fraction num/den the code divides.               *)
(***************************************************************************)
EXTENDS Integers, Sequences, FiniteSets, TLC

VARIABLES
    \* ---- PriceManager ----
    prices_is_None,   \* self.prices_350d is None (constructed without prices)
    prices_350d,      \* self.prices_350d when it is a list
    sum_350,          \* self.sum_350
    sum_111,          \* self.sum_111
    moving_averages,  \* self.moving_averages: [MA111, MA350], each a fraction
    n_updates,        \* number of update_moving_averages calls made so far
    upd_result,       \* how the last call ended
    upd_isnum,        \* the last call's argument was an int or a float
    upd_len_before,   \* len(prices_350d) when the last call started (-1: None)
    \* ---- the raw store and file_lock ----
    store,            \* rows of the raw CSV, each row its Timestamp (BadRow: unparsable)
    lk_path,          \* inode the name '<path>.lock' refers to (0: no such file)
    lk_owner,         \* per inode: the process whose descriptor holds flock on it (0: none)
    lk_pc,            \* per process: its position in append_to_csv / file_lock
    lk_fd,            \* per process: the inode its lock_fd refers to (0: lock_fd is None)
    lk_exc,           \* per process: the exception the with-statement is propagating
    to_write,         \* per process: the rows of the DataFrame it is appending
    n_appends,        \* number of append_to_csv calls started
    lk_log,           \* per process: the error its release logged (lines 44-45)
    lk_timeout,       \* per process: the timeout argument of its file_lock call (0: None)
    lk_waited,        \* per process: seconds it has been blocked in flock so far
    \* ---- backfill: get_missing_data of the manager and of utils ----
    epoch,            \* the wall clock, int(time.time()), in seconds, when the runs are made
    src_points,       \* the raw [timestamp, price] points the source holds (timestamps)
    src_overlap,      \* whether the source answers a range request with points beyond it
    bf_impl,          \* which get_missing_data is running: "manager" or "utils"
    bf_pc,            \* position of the run
    last_timestamp,   \* last_timestamp of the run (0: None)
    current_time,     \* current_time / current_timestamp, read once
    current_ts,       \* the cursor of the batch loop
    all_new_data,     \* rows collected so far (their Timestamp)
    attempts,         \* calls of fetch_historical_batch made for the current batch
    bf_result,        \* "none", "True", "False" or "raised" (an exception left the run)
    bf_fail,          \* why the run failed ("none": it did not)
    n_runs,           \* runs started
    run_store0,       \* the store when the current run started
    failure_seen,     \* some request, batch or append of a run has failed so far
    failed_batches,   \* the batches that failed terminally: run, from_ts, to_ts
    fetch_calls,      \* the ranges the current run asked the source for, in order
    up_to_date,       \* the current run found the store up to date and returned
    \* ---- timestamp normalization on its own ----
    nz_raw,           \* a raw timestamp
    nz_once,          \* its stored Timestamp (-1: not computed)
    nz_twice,         \* the stored Timestamp of nz_once (-1: not computed)
    nz_as_ms,         \* the stored Timestamp of the same instant in milliseconds
    \* ---- the rate limiter ----
    clock,            \* time.time(), in half seconds
    last_request_time,\* self.last_request_time
    rl_pc,            \* per caller: position in _wait_for_rate_limit
    rl_wake,          \* per caller: when its time.sleep ends
    rl_returns,       \* the times at which calls returned, in order
    \* ---- fetch_historical_batch under backoff, called batch after batch ----
    ft_pc,            \* position of the thread in fetch_historical_batch / backoff
    ft_calls,         \* calls of fetch_historical_batch made by get_missing_data (batches)
    ft_tries,         \* backoff's tries of the current call (invocations of the body)
    ft_reqs,          \* requests.get calls made for the current batch
    ft_kinds,         \* how the failed attempts of the current batch failed, in order
    ft_result,        \* how the last call ended: "none", "ok" or "raised"
    ft_wake,          \* when the time.sleep(60) of line 64 ends
    n_entered,        \* invocations of the body of fetch_historical_batch so far
    n_requests,       \* requests.get calls made so far (line 61)
    \* ---- server.py: the two PriceManager objects and the endpoints ----
    latest_price,     \* latest_price of the manager the scheduler updates (0: None)
    g_latest_price,   \* latest_price of the module-level price_manager (0: None)
    g_moving_averages,\* moving_averages of the module-level price_manager
    api_price,        \* the last /api/latest-price response
    api_mas,          \* the last /api/latest-moving-averages response
    tick_result,      \* how the last update_price ended
    processed_rows    \* rows update_price appended to the processed CSV

avgVars == <<prices_is_None, prices_350d, sum_350, sum_111, moving_averages,
             n_updates, upd_result, upd_isnum, upd_len_before>>

lockVars == <<store, lk_path, lk_owner, lk_pc, lk_fd, lk_exc, to_write, n_appends, lk_log, lk_timeout, lk_waited>>

bfVars == <<epoch, src_points, src_overlap, bf_impl, bf_pc, last_timestamp, current_time,
            current_ts, all_new_data, attempts, bf_result, bf_fail, n_runs, run_store0,
            failure_seen, failed_batches, fetch_calls, up_to_date>>

normVars == <<nz_raw, nz_once, nz_twice, nz_as_ms>>

rateVars == <<clock, last_request_time, rl_pc, rl_wake, rl_returns>>

fetchVars == <<ft_pc, ft_calls, ft_tries, ft_reqs, ft_kinds, ft_result, ft_wake, n_entered, n_requests>>

serverVars == <<latest_price, g_latest_price, g_moving_averages, api_price, api_mas,
                tick_result, processed_rows>>

vars == <<avgVars, lockVars, bfVars, normVars, rateVars, fetchVars, serverVars>>

-----------------------------------------------------------------------------
(* Generic helpers                                                         *)

RECURSIVE SumSeq(_)
SumSeq(s) == IF s = <<>> THEN 0 ELSE Head(s) + SumSeq(Tail(s))

\* Python's s[-n:] : the last n elements (the whole list when it is shorter)
LastN(s, n) == IF Len(s) <= n THEN s ELSE SubSeq(s, Len(s) - n + 1, Len(s))

-----------------------------------------------------------------------------
(* PriceManager (src/backend/managers/price_manager.py)                    *)

\* MA111_WINDOW = 111 * 1440 and MA350_WINDOW = 350 * 1440 in the source;
\* scaled to windows of 2 and 4 ticks (MA111_WINDOW + 1 <= MA350_WINDOW as
\* in the source).
MA111_WINDOW == 2
MA350_WINDOW == 4

MaxPrice == 2
MaxUpdates == 7

Prices == 1..MaxPrice

\* a moving average that was never computed (None in the source)
NoneMA == [num |-> 0, den |-> 0]

WarmLists == [1..MA350_WINDOW -> Prices]

\* PriceManager.__init__(initial_prices): initial_prices None, [] or a list of
\* exactly MA350_WINDOW prices (any other length raises, no object exists)
PriceManagerInit ==
    /\ \/ /\ prices_is_None = TRUE
          /\ prices_350d = <<>>
       \/ /\ prices_is_None = FALSE
          /\ prices_350d \in {<<>>} \cup WarmLists
    /\ sum_350 = IF prices_350d # <<>> THEN SumSeq(prices_350d) ELSE 0
    /\ sum_111 = IF prices_350d # <<>>
                 THEN SumSeq(LastN(prices_350d, MA111_WINDOW)) ELSE 0
    /\ moving_averages = [MA111 |-> NoneMA, MA350 |-> NoneMA]
    /\ n_updates = 0
    /\ upd_result = "none"
    /\ upd_isnum = TRUE
    /\ upd_len_before = 0

\* the element the short window loses: self.prices_350d[-MA111_WINDOW - 1]
FallingOut(buf) == buf[Len(buf) - MA111_WINDOW]

\* a buffer that only grows: the eviction of lines 50-53 left out
NeverEvicted(buf) == buf

\* the buffer after append and the eviction of lines 50-53
Evicted(buf) == IF Len(buf) > MA350_WINDOW THEN Tail(buf) ELSE buf

\* update_moving_averages(new_price); isnum is isinstance(new_price, (int, float))
update_moving_averages(isnum, new_price) ==
    /\ n_updates < MaxUpdates
    /\ n_updates' = n_updates + 1
    /\ upd_isnum' = isnum
    /\ upd_len_before' = IF prices_is_None THEN -1 ELSE Len(prices_350d)
    /\ UNCHANGED <<prices_is_None, lockVars, bfVars, normVars, rateVars, fetchVars>>
    /\ IF ~isnum
       THEN \* line 44: raise ValueError("Price must be a number")
            /\ upd_result' = "ValueError: Price must be a number"
            /\ UNCHANGED <<prices_350d, sum_350, sum_111, moving_averages>>
       ELSE IF prices_is_None
       THEN \* line 46: None.append raises AttributeError
            /\ upd_result' = "AttributeError"
            /\ UNCHANGED <<prices_350d, sum_350, sum_111, moving_averages>>
       ELSE LET appended == Append(prices_350d, new_price)
                buf == Evicted(appended)
                s350 == IF Len(appended) > MA350_WINDOW
                        THEN sum_350 + new_price - Head(appended)
                        ELSE sum_350 + new_price
            IN /\ prices_350d' = buf
               /\ sum_350' = s350
               /\ IF Len(buf) < MA350_WINDOW
                  THEN \* line 56: raised after the buffer and sum_350 changed
                       /\ upd_result' = "ValueError: Not enough data points"
                       /\ UNCHANGED <<sum_111, moving_averages>>
                  ELSE LET s111 == sum_111 - FallingOut(buf) + new_price
                       IN /\ sum_111' = s111
                          /\ moving_averages' =
                                [MA111 |-> [num |-> s111, den |-> MA111_WINDOW],
                                 MA350 |-> [num |-> s350, den |-> MA350_WINDOW]]
                          /\ upd_result' = "ok"

-----------------------------------------------------------------------------
(* The raw store and file_lock (src/backend/utils.py lines 14-45), as used  *)
(* by HistoricalDataManager.append_to_csv.  The lock file is a name that    *)
(* refers to an inode; flock locks the inode a descriptor refers to, not    *)
(* the name.                                                               *)

NProcs == 2
MaxAppends == 3

Procs == 1..NProcs

\* a process holds at most one descriptor and the name refers to at most one
\* inode, so NProcs + 1 inodes are enough for every inode in use
Inodes == 1..(NProcs + 1)

\* a store row whose Timestamp field cannot be parsed
BadRow == -1

\* an inode no descriptor and no name refers to (what open(..., 'w') creates)
FreeInode == CHOOSE i \in Inodes :
    /\ i # lk_path
    /\ \A q \in Procs : lk_fd[q] # i
    /\ \A j \in Inodes : (j # lk_path /\ \A q \in Procs : lk_fd[q] # j) => i <= j

LockIdle ==
    /\ lk_path = 0
    /\ lk_owner = [i \in Inodes |-> 0]
    /\ lk_pc = [p \in Procs |-> "idle"]
    /\ lk_fd = [p \in Procs |-> 0]
    /\ lk_exc = [p \in Procs |-> "none"]
    /\ to_write = [p \in Procs |-> <<>>]
    /\ n_appends = 0
    /\ lk_log = [p \in Procs |-> "none"]
    /\ lk_timeout = [p \in Procs |-> 0]
    /\ lk_waited = [p \in Procs |-> 0]

\* append_to_csv(data), line 95: the DataFrame is built, then file_lock entered
append_to_csv(p, data) ==
    /\ lk_pc[p] = "idle"
    /\ n_appends < MaxAppends
    /\ n_appends' = n_appends + 1
    /\ to_write' = [to_write EXCEPT ![p] = data]
    /\ lk_exc' = [lk_exc EXCEPT ![p] = "none"]
    /\ lk_pc' = [lk_pc EXCEPT ![p] = "open"]
    /\ lk_log' = [lk_log EXCEPT ![p] = "none"]
    /\ lk_timeout' = [lk_timeout EXCEPT ![p] = 0]
    /\ lk_waited' = [lk_waited EXCEPT ![p] = 0]
    /\ UNCHANGED <<store, lk_path, lk_owner, lk_fd>>
    /\ UNCHANGED <<avgVars, normVars, rateVars, fetchVars, serverVars>>

\* line 34: lock_fd = open(lock_file, 'w'): the existing file, or a new one
LockOpen(p) ==
    /\ lk_pc[p] = "open"
    /\ LET ino == IF lk_path # 0 THEN lk_path ELSE FreeInode
       IN /\ lk_fd' = [lk_fd EXCEPT ![p] = ino]
          /\ lk_path' = ino
    /\ lk_pc' = [lk_pc EXCEPT ![p] = "flock"]
    /\ UNCHANGED <<store, lk_owner, lk_exc, to_write, n_appends, lk_log, lk_timeout, lk_waited>>
    /\ UNCHANGED <<avgVars, bfVars, normVars, rateVars, fetchVars, serverVars>>

\* line 34 failing (IOError): lock_fd stays None, finally does nothing
LockOpenFails(p) ==
    /\ lk_pc[p] = "open"
    /\ lk_exc' = [lk_exc EXCEPT ![p] = "IOError"]
    /\ lk_pc' = [lk_pc EXCEPT ![p] = "returned"]
    /\ UNCHANGED <<store, lk_path, lk_owner, lk_fd, to_write, n_appends, lk_log, lk_timeout, lk_waited>>
    /\ UNCHANGED <<avgVars, bfVars, normVars, rateVars, fetchVars, serverVars>>

\* line 35: fcntl.flock(fd, LOCK_EX) returns once no other descriptor holds
\* the lock of the same inode
LockFlock(p) ==
    /\ lk_pc[p] = "flock"
    /\ lk_owner[lk_fd[p]] = 0
    /\ lk_owner' = [lk_owner EXCEPT ![lk_fd[p]] = p]
    /\ lk_pc' = [lk_pc EXCEPT ![p] = "body"]
    /\ UNCHANGED <<store, lk_path, lk_fd, lk_exc, to_write, n_appends, lk_log, lk_timeout, lk_waited>>
    /\ UNCHANGED <<avgVars, bfVars, normVars, rateVars, fetchVars, serverVars>>

\* the locked body, append_to_csv line 98: df.to_csv(path, mode='a')
LockedWrite(p) ==
    /\ lk_pc[p] = "body"
    /\ store' = store \o to_write[p]
    /\ lk_pc' = [lk_pc EXCEPT ![p] = "unlock"]
    /\ UNCHANGED <<lk_path, lk_owner, lk_fd, lk_exc, to_write, n_appends, lk_log, lk_timeout, lk_waited>>
    /\ UNCHANGED <<avgVars, bfVars, normVars, rateVars, fetchVars, serverVars>>

\* the locked body raising (the write fails with IOError/OSError)
LockedWriteFails(p) ==
    /\ lk_pc[p] = "body"
    /\ lk_exc' = [lk_exc EXCEPT ![p] = "IOError"]
    /\ lk_pc' = [lk_pc EXCEPT ![p] = "unlock"]
    /\ UNCHANGED <<store, lk_path, lk_owner, lk_fd, to_write, n_appends, lk_log, lk_timeout, lk_waited>>
    /\ UNCHANGED <<avgVars, bfVars, normVars, rateVars, fetchVars, serverVars>>

\* a release that forgets line 41: the descriptor keeps its lock
LockUnlockKeepsLock(p) ==
    /\ lk_pc[p] = "unlock"
    /\ lk_pc' = [lk_pc EXCEPT ![p] = "close"]
    /\ UNCHANGED <<store, lk_path, lk_owner, lk_fd, lk_exc, to_write, n_appends, lk_log, lk_timeout, lk_waited>>
    /\ UNCHANGED <<avgVars, bfVars, normVars, rateVars, fetchVars, serverVars>>

\* line 41: fcntl.flock(fd, LOCK_UN)
LockUnlock(p) ==
    /\ lk_pc[p] = "unlock"
    /\ lk_owner' = [lk_owner EXCEPT ![lk_fd[p]] = 0]
    /\ lk_pc' = [lk_pc EXCEPT ![p] = "close"]
    /\ UNCHANGED <<store, lk_path, lk_fd, lk_exc, to_write, n_appends, lk_log, lk_timeout, lk_waited>>
    /\ UNCHANGED <<avgVars, bfVars, normVars, rateVars, fetchVars, serverVars>>

\* line 42: lock_fd.close()
LockClose(p) ==
    /\ lk_pc[p] = "close"
    /\ lk_fd' = [lk_fd EXCEPT ![p] = 0]
    /\ lk_pc' = [lk_pc EXCEPT ![p] = "remove"]
    /\ UNCHANGED <<store, lk_path, lk_owner, lk_exc, to_write, n_appends, lk_log, lk_timeout, lk_waited>>
    /\ UNCHANGED <<avgVars, bfVars, normVars, rateVars, fetchVars, serverVars>>

\* line 43: os.remove(lock_file) unlinks whatever the name refers to now; when
\* the name is gone it raises FileNotFoundError (an OSError), which lines
\* 44-45 log: nothing is raised to the caller
LockRemove(p) ==
    /\ lk_pc[p] = "remove"
    /\ lk_path' = 0
    /\ lk_log' = [lk_log EXCEPT ![p] = IF lk_path = 0 THEN "FileNotFoundError" ELSE "none"]
    /\ lk_pc' = [lk_pc EXCEPT ![p] = "returned"]
    /\ UNCHANGED <<store, lk_owner, lk_fd, lk_exc, to_write, n_appends, lk_timeout, lk_waited>>
    /\ UNCHANGED <<avgVars, bfVars, normVars, rateVars, fetchVars, serverVars>>

\* the with-statement is left: append_to_csv returns or re-raises lk_exc
LockReturn(p) ==
    /\ lk_pc[p] = "returned"
    /\ lk_pc' = [lk_pc EXCEPT ![p] = "idle"]
    /\ UNCHANGED <<store, lk_path, lk_owner, lk_fd, lk_exc, to_write, n_appends, lk_log, lk_timeout, lk_waited>>
    /\ UNCHANGED <<avgVars, bfVars, normVars, rateVars, fetchVars, serverVars>>

\* the steps of file_lock around the write, for process p
file_lock(p) ==
    \/ LockOpen(p)
    \/ LockOpenFails(p)
    \/ LockFlock(p)
    \/ LockedWrite(p)
    \/ LockedWriteFails(p)
    \/ LockUnlock(p)
    \/ LockClose(p)
    \/ LockRemove(p)
    \/ LockReturn(p)

\* the timeouts a caller may pass, in seconds (0: None)
MaxTimeout == 2

\* a caller writes data under file_lock(path, timeout=timeout), lines 15 and
\* 30-31; the timeout is an argument the body of file_lock never reads
file_lock_with_timeout(p, data, timeout) ==
    /\ lk_pc[p] = "idle"
    /\ n_appends < MaxAppends
    /\ n_appends' = n_appends + 1
    /\ to_write' = [to_write EXCEPT ![p] = data]
    /\ lk_exc' = [lk_exc EXCEPT ![p] = "none"]
    /\ lk_pc' = [lk_pc EXCEPT ![p] = "open"]
    /\ lk_log' = [lk_log EXCEPT ![p] = "none"]
    /\ lk_timeout' = [lk_timeout EXCEPT ![p] = timeout]
    /\ lk_waited' = [lk_waited EXCEPT ![p] = 0]
    /\ UNCHANGED <<store, lk_path, lk_owner, lk_fd>>
    /\ UNCHANGED <<avgVars, bfVars, normVars, rateVars, fetchVars, serverVars>>

\* line 35: a second passes while fcntl.flock(fd, LOCK_EX) is blocked by the
\* lock another descriptor holds
LockBlocked(p) ==
    /\ lk_pc[p] = "flock"
    /\ lk_owner[lk_fd[p]] # 0
    /\ lk_waited[p] <= MaxTimeout
    /\ lk_waited' = [lk_waited EXCEPT ![p] = lk_waited[p] + 1]
    /\ UNCHANGED <<store, lk_path, lk_owner, lk_pc, lk_fd, lk_exc, to_write, n_appends, lk_log,
                   lk_timeout>>
    /\ UNCHANGED <<avgVars, bfVars, normVars, rateVars, fetchVars, serverVars>>

\* process p is inside the locked body (an append is in flight)
InBody(p) == lk_pc[p] = "body"

\* process p holds the exclusive lock of the lock file the name refers to
HoldsLock(p) == lk_fd[p] # 0 /\ lk_owner[lk_fd[p]] = p

-----------------------------------------------------------------------------
(* Timestamp normalization (historical_manager.py line 82 and line 126,     *)
(* utils.py line 302).  Raw timestamps are non-negative integers.           *)

\* the literal 1000 (milliseconds per second) and MILLISECONDS_THRESHOLD
\* (1e12, written 1e12 again at lines 82 and 126), scaled to 10 and 100: a
\* timestamp in seconds lies in (MILLISECONDS_THRESHOLD / MS_PER_SEC,
\* MILLISECONDS_THRESHOLD], as 1.7e9 lies in (1e9, 1e12]
MS_PER_SEC == 10
MILLISECONDS_THRESHOLD == 100

\* an upper bound of the raw timestamps normalized on their own
MaxRaw == 1200

\* a normalization that divides whatever the magnitude (as utils.py line 302)
NormalizeTimestampAlwaysDivides(timestamp) == timestamp \div MS_PER_SEC

\* line 82: int(timestamp / 1000) if timestamp > 1e12 else int(timestamp)
NormalizeTimestamp(timestamp) ==
    IF timestamp > MILLISECONDS_THRESHOLD THEN timestamp \div MS_PER_SEC ELSE timestamp

\* process_api_data(point): the stored row of a point, i.e. its Timestamp
process_api_data(point) == NormalizeTimestamp(point)

\* line 126: (point[0] / 1000 if point[0] > 1e12 else point[0]) > last_timestamp,
\* a comparison of the quotient before it is truncated
PassesFilter(point, last) ==
    IF point > MILLISECONDS_THRESHOLD THEN point > last * MS_PER_SEC ELSE point > last

\* utils.py line 302: ts = int(ts_ms / 1000), whatever the magnitude
UtilsTimestamp(ts_ms) == ts_ms \div MS_PER_SEC

NormIdle ==
    /\ nz_raw = 0
    /\ nz_once = -1
    /\ nz_twice = -1
    /\ nz_as_ms = -1

\* a point is stored
NormOnce ==
    /\ nz_once = -1
    /\ nz_once' = process_api_data(nz_raw)
    /\ UNCHANGED <<nz_raw, nz_twice, nz_as_ms, avgVars, lockVars, bfVars, rateVars, fetchVars, serverVars>>

\* its stored Timestamp is fed to the normalization again
NormTwice ==
    /\ nz_once # -1
    /\ nz_twice = -1
    /\ nz_twice' = process_api_data(nz_once)
    /\ UNCHANGED <<nz_raw, nz_once, nz_as_ms, avgVars, lockVars, bfVars, rateVars, fetchVars, serverVars>>

\* the same instant, given in milliseconds, is stored
NormAsMs ==
    /\ nz_as_ms = -1
    /\ nz_as_ms' = process_api_data(nz_raw * MS_PER_SEC)
    /\ UNCHANGED <<nz_raw, nz_once, nz_twice, avgVars, lockVars, bfVars, rateVars, fetchVars, serverVars>>

-----------------------------------------------------------------------------
(* Backfill: HistoricalDataManager.get_missing_data (historical_manager.py  *)
(* lines 100-146) and utils.get_missing_data (utils.py lines 223-330).      *)

\* the literal 60 (seconds per minute: the up-to-date gap and the cursor
\* step) and BATCH_SIZE (1440 minutes per request), scaled to 2 and 2: a
\* batch is BATCH_SIZE * MINUTE = 4 seconds wide, a day (24 * 3600) as well
MINUTE == 2
BATCH_SIZE == 2
MAX_RETRIES == 3
LOOKBACK == 10

DAY == BATCH_SIZE * MINUTE

\* the last timestamp of the initial stores, and how far the clock may be ahead
T0 == 20
MaxGap == 9
MaxPoints == 2
MaxRuns == 2

\* the process that runs the backfill
Self == CHOOSE p \in Procs : \A q \in Procs : p <= q

RECURSIVE Insert(_, _)
Insert(x, s) ==
    IF s = <<>> THEN <<x>>
    ELSE IF x < Head(s) THEN <<x>> \o s
    ELSE <<Head(s)>> \o Insert(x, Tail(s))

\* list.sort(key=Timestamp): rows in non-decreasing order (stable)
RECURSIVE SortByTimestamp(_)
SortByTimestamp(s) == IF s = <<>> THEN <<>> ELSE Insert(s[Len(s)], SortByTimestamp(SubSeq(s, 1, Len(s) - 1)))

RECURSIVE Repeat(_, _)
Repeat(x, n) == IF n = 0 THEN <<>> ELSE <<x>> \o Repeat(x, n - 1)

\* the stores a run may start from: the rows with a Timestamp are strictly
\* increasing; a store may be empty or end in unparsable rows
StoreInits ==
    { <<>>, <<T0>>, <<T0 - MINUTE, T0>>, <<T0, BadRow>>, Repeat(BadRow, LOOKBACK) }

\* raw timestamps the source may hold: seconds, milliseconds, and
\* milliseconds that are not a whole second
RawPoints ==
    { T0, T0 + MINUTE,
      (T0 + MINUTE) * MS_PER_SEC,
      T0 * MS_PER_SEC + MS_PER_SEC \div 2,
      (T0 + MINUTE) * MS_PER_SEC + MS_PER_SEC \div 2 }

SourceData == UNION { [1..n -> RawPoints] : n \in 0..MaxPoints }

\* a resume point read from the first row of the file
get_first_timestamp ==
    IF store = <<>> THEN 0
    ELSE IF store[1] = BadRow THEN 0
    ELSE store[1]

\* get_last_timestamp (lines 28-37): the Timestamp of the last row; None (0)
\* for an empty file or when int() of the last row raises
get_last_timestamp ==
    IF store = <<>> THEN 0
    ELSE IF store[Len(store)] = BadRow THEN 0
    ELSE store[Len(store)]

\* utils.py lines 239-246: the rows -(i+1), i = 0..9, from the last one; the
\* result is a Timestamp, "IndexError" (iloc past the first row, not caught)
\* or "ValueError" (line 246)
RECURSIVE ScanBack(_)
ScanBack(i) ==
    IF i >= LOOKBACK THEN [kind |-> "ValueError", ts |-> 0]
    ELSE IF i + 1 > Len(store) THEN [kind |-> "IndexError", ts |-> 0]
    ELSE IF store[Len(store) - i] # BadRow THEN [kind |-> "found", ts |-> store[Len(store) - i]]
    ELSE ScanBack(i + 1)

\* the rows of line 123-127: the points that pass the filter, processed
RECURSIVE ProcessBatch(_, _)
ProcessBatch(batch_data, last) ==
    IF batch_data = <<>> THEN <<>>
    ELSE (IF PassesFilter(Head(batch_data), last)
          THEN <<process_api_data(Head(batch_data))>> ELSE <<>>)
         \o ProcessBatch(Tail(batch_data), last)

Min(a, b) == IF a < b THEN a ELSE b

\* a batch that is one minute wide
BatchEndOfOneMinute(from, now) == Min(from + MINUTE, now)

\* a batch that is twice BATCH_SIZE minutes wide
BatchEndOfTwoDays(from, now) == Min(from + 2 * BATCH_SIZE * MINUTE, now)

\* line 119: batch_end = min(current_ts + self.BATCH_SIZE * 60, current_time)
BatchEndOf(from, now) == Min(from + BATCH_SIZE * MINUTE, now)

\* line 119
BatchEnd == BatchEndOf(current_ts, current_time)

\* the batch the loop is at: the range of the call of line 122
ThisBatch == [run |-> n_runs, from_ts |-> current_ts, to_ts |-> BatchEnd]

BackfillInit ==
    /\ store \in StoreInits
    /\ src_points \in SourceData
    /\ src_overlap \in BOOLEAN
    /\ epoch \in (T0 - 1)..(T0 + MaxGap)
    /\ bf_impl = "none"
    /\ bf_pc = "idle"
    /\ last_timestamp = 0
    /\ current_time = 0
    /\ current_ts = 0
    /\ all_new_data = <<>>
    /\ attempts = 0
    /\ bf_result = "none"
    /\ bf_fail = "none"
    /\ n_runs = 0
    /\ run_store0 = <<>>
    /\ failure_seen = FALSE
    /\ failed_batches = {}
    /\ fetch_calls = <<>>
    /\ up_to_date = FALSE

BackfillIdle ==
    /\ epoch = T0
    /\ src_points = <<>>
    /\ src_overlap = FALSE
    /\ bf_impl = "none"
    /\ bf_pc = "idle"
    /\ last_timestamp = 0
    /\ current_time = 0
    /\ current_ts = 0
    /\ all_new_data = <<>>
    /\ attempts = 0
    /\ bf_result = "none"
    /\ bf_fail = "none"
    /\ n_runs = 0
    /\ run_store0 = <<>>
    /\ failure_seen = FALSE
    /\ failed_batches = {}
    /\ fetch_calls = <<>>
    /\ up_to_date = FALSE

\* a test that also takes a gap of exactly one minute for up to date
UpToDateWithinMinute(last, now) == now - last <= MINUTE

\* historical_manager.py line 109, utils.py line 252: the gap is below 60 s
UpToDate(last, now) == now - last < MINUTE

\* the run returned (or raised) and the caller goes on
RunReturns ==
    /\ bf_pc = "done"
    /\ bf_pc' = "idle"
    /\ UNCHANGED <<failure_seen, failed_batches, fetch_calls, up_to_date>>
    /\ UNCHANGED <<epoch, src_points, src_overlap, bf_impl, last_timestamp, current_time, current_ts,
                   all_new_data, attempts, bf_result, bf_fail, n_runs, run_store0>>
    /\ UNCHANGED <<avgVars, lockVars, normVars, rateVars, fetchVars, serverVars>>

\* the instant of a raw point, in seconds, as the source knows it
PointTime(point) == NormalizeTimestamp(point)

\* the points of the source within [from, to]
RECURSIVE InRange(_, _, _)
InRange(points, from, to) ==
    IF points = <<>> THEN <<>>
    ELSE (IF from <= PointTime(Head(points)) /\ PointTime(Head(points)) <= to
          THEN <<Head(points)>> ELSE <<>>) \o InRange(Tail(points), from, to)

\* lines 119 and 122: the range of the call made for the batch that starts at
\* from (batch_end = min(from + BATCH_SIZE * 60, now))
CallOf(from, now) == [from_ts |-> from, to_ts |-> BatchEndOf(from, now)]

\* what lines 137-142 do with the rows collected once the loop is left
AfterLoop(data) ==
    IF data # <<>>
    THEN /\ bf_pc' = "append"
         /\ bf_result' = "none"
    ELSE /\ bf_pc' = "done"
         /\ bf_result' = "True"

\* the cursor moves past the batch (lines 130 and 134) and the loop test of
\* line 118 is made again
NextBatch(data) ==
    /\ current_ts' = BatchEnd + MINUTE
    /\ all_new_data' = data
    /\ attempts' = 0
    /\ IF BatchEnd + MINUTE < current_time
       THEN /\ bf_pc' = "fetch"
            /\ bf_result' = "none"
            /\ fetch_calls' = Append(fetch_calls, CallOf(BatchEnd + MINUTE, current_time))
       ELSE /\ AfterLoop(data)
            /\ UNCHANGED fetch_calls

\* HistoricalDataManager.get_missing_data, lines 102-116 and the first loop test
ManagerStart ==
    /\ bf_pc = "idle"
    /\ bf_impl \in {"none", "manager"}
    /\ lk_pc[Self] = "idle"
    /\ n_runs < MaxRuns
    /\ n_runs' = n_runs + 1
    /\ run_store0' = store
    /\ bf_impl' = "manager"
    /\ last_timestamp' = get_last_timestamp
    /\ all_new_data' = <<>>
    /\ attempts' = 0
    /\ IF get_last_timestamp = 0
       THEN \* lines 104-106
            /\ bf_pc' = "done"
            /\ bf_result' = "False"
            /\ bf_fail' = "resume"
            /\ up_to_date' = FALSE
            /\ fetch_calls' = <<>>
            /\ UNCHANGED <<current_time, current_ts>>
       ELSE /\ current_time' = epoch
            /\ bf_fail' = "none"
            /\ IF UpToDate(get_last_timestamp, epoch)
               THEN \* lines 109-111
                    /\ bf_pc' = "done"
                    /\ bf_result' = "True"
                    /\ up_to_date' = TRUE
                    /\ fetch_calls' = <<>>
                    /\ UNCHANGED current_ts
               ELSE /\ current_ts' = get_last_timestamp + MINUTE
                    /\ up_to_date' = FALSE
                    /\ IF get_last_timestamp + MINUTE < epoch
                       THEN /\ bf_pc' = "fetch"
                            /\ bf_result' = "none"
                            /\ fetch_calls' = <<CallOf(get_last_timestamp + MINUTE, epoch)>>
                       ELSE /\ bf_pc' = "done"
                            /\ bf_result' = "True"
                            /\ fetch_calls' = <<>>
    /\ UNCHANGED <<failure_seen, failed_batches, epoch, src_points, src_overlap>>
    /\ UNCHANGED <<avgVars, lockVars, normVars, rateVars, fetchVars, serverVars>>

\* lines 122-130: fetch_historical_batch returns the 'prices' of a 200
\* response; the source answers with its points of the requested range, or
\* (the same way at every request) with points beyond it as well
ManagerFetchOk ==
    /\ bf_pc = "fetch"
    /\ bf_impl = "manager"
    /\ LET batch_data == IF src_overlap THEN src_points
                         ELSE InRange(src_points, current_ts, BatchEnd)
           processed_data == ProcessBatch(batch_data, last_timestamp)
       IN NextBatch(all_new_data \o processed_data)
    /\ UNCHANGED <<failure_seen, failed_batches, up_to_date>>
    /\ UNCHANGED <<epoch, src_points, src_overlap, bf_impl, last_timestamp, current_time, bf_fail,
                   n_runs, run_store0>>
    /\ UNCHANGED <<avgVars, lockVars, normVars, rateVars, fetchVars, serverVars>>

\* a run that gives up at the first batch that fails terminally
ManagerFetchFailsAbortsRun ==
    /\ bf_pc = "fetch"
    /\ bf_impl = "manager"
    /\ IF attempts + 1 < MAX_RETRIES
       THEN /\ attempts' = attempts + 1
            /\ UNCHANGED <<bf_pc, bf_result, current_ts, all_new_data, failed_batches, fetch_calls>>
       ELSE /\ bf_pc' = "done"
            /\ bf_result' = "False"
            /\ failed_batches' = failed_batches \cup {ThisBatch}
            /\ UNCHANGED <<current_ts, all_new_data, attempts, fetch_calls>>
    /\ failure_seen' = TRUE
    /\ UNCHANGED up_to_date
    /\ UNCHANGED <<epoch, src_points, src_overlap, bf_impl, last_timestamp, current_time, bf_fail,
                   n_runs, run_store0>>
    /\ UNCHANGED <<avgVars, lockVars, normVars, rateVars, fetchVars, serverVars>>

\* a batch that is tried again, from a fresh count, whenever its tries are
\* used up: the cursor stays
ManagerFetchFailsRetriesForever ==
    /\ bf_pc = "fetch"
    /\ bf_impl = "manager"
    /\ attempts' = IF attempts + 1 < MAX_RETRIES THEN attempts + 1 ELSE 0
    /\ UNCHANGED <<bf_pc, bf_result, current_ts, all_new_data, failed_batches, fetch_calls>>
    /\ failure_seen' = TRUE
    /\ UNCHANGED up_to_date
    /\ UNCHANGED <<epoch, src_points, src_overlap, bf_impl, last_timestamp, current_time, bf_fail,
                   n_runs, run_store0>>
    /\ UNCHANGED <<avgVars, lockVars, normVars, rateVars, fetchVars, serverVars>>

\* lines 62-74 raise (429, another non-200 status, a body without 'prices'):
\* backoff calls again until MAX_RETRIES calls were made, then the exception
\* reaches lines 132-135
ManagerFetchFails ==
    /\ bf_pc = "fetch"
    /\ bf_impl = "manager"
    /\ IF attempts + 1 < MAX_RETRIES
       THEN /\ attempts' = attempts + 1
            /\ UNCHANGED <<bf_pc, bf_result, current_ts, all_new_data, failed_batches, fetch_calls>>
       ELSE /\ NextBatch(all_new_data)
            /\ failed_batches' = failed_batches \cup {ThisBatch}
    /\ failure_seen' = TRUE
    /\ UNCHANGED up_to_date
    /\ UNCHANGED <<epoch, src_points, src_overlap, bf_impl, last_timestamp, current_time, bf_fail,
                   n_runs, run_store0>>
    /\ UNCHANGED <<avgVars, lockVars, normVars, rateVars, fetchVars, serverVars>>

\* lines 123-127 raise on a malformed point of a 200 response: nothing of the
\* batch is kept, lines 132-135 move on at once
ManagerBadPoint ==
    /\ bf_pc = "fetch"
    /\ bf_impl = "manager"
    /\ NextBatch(all_new_data)
    /\ failed_batches' = failed_batches \cup {ThisBatch}
    /\ failure_seen' = TRUE
    /\ UNCHANGED up_to_date
    /\ UNCHANGED <<epoch, src_points, src_overlap, bf_impl, last_timestamp, current_time, bf_fail,
                   n_runs, run_store0>>
    /\ UNCHANGED <<avgVars, lockVars, normVars, rateVars, fetchVars, serverVars>>

\* an append of the rows in the order they were collected (line 138 left out)
ManagerAppendUnsorted ==
    /\ bf_pc = "append"
    /\ bf_impl = "manager"
    /\ append_to_csv(Self, all_new_data)
    /\ bf_pc' = "appending"
    /\ UNCHANGED <<failure_seen, failed_batches, fetch_calls, up_to_date>>
    /\ UNCHANGED <<epoch, src_points, src_overlap, bf_impl, last_timestamp, current_time, current_ts,
                   all_new_data, attempts, bf_result, bf_fail, n_runs, run_store0>>

\* lines 138-139: sort, then append_to_csv
ManagerAppend ==
    /\ bf_pc = "append"
    /\ bf_impl = "manager"
    /\ append_to_csv(Self, SortByTimestamp(all_new_data))
    /\ bf_pc' = "appending"
    /\ UNCHANGED <<failure_seen, failed_batches, fetch_calls, up_to_date>>
    /\ UNCHANGED <<epoch, src_points, src_overlap, bf_impl, last_timestamp, current_time, current_ts,
                   all_new_data, attempts, bf_result, bf_fail, n_runs, run_store0>>

\* append_to_csv is back: line 142 returns True, or lines 144-146 turn the
\* exception it raised into False
ManagerAppended ==
    /\ bf_pc = "appending"
    /\ lk_pc[Self] = "idle"
    /\ bf_pc' = "done"
    /\ bf_result' = IF lk_exc[Self] = "none" THEN "True" ELSE "False"
    /\ bf_fail' = IF lk_exc[Self] = "none" THEN "none" ELSE "append"
    /\ failure_seen' = (failure_seen \/ lk_exc[Self] # "none")
    /\ UNCHANGED <<failed_batches, fetch_calls, up_to_date>>
    /\ UNCHANGED <<epoch, src_points, src_overlap, bf_impl, last_timestamp, current_time, current_ts,
                   all_new_data, attempts, n_runs, run_store0>>
    /\ UNCHANGED <<avgVars, lockVars, normVars, rateVars, fetchVars, serverVars>>

CeilDiv(a, b) == (a + b - 1) \div b

\* utils.get_missing_data, lines 236-254
UtilsStart ==
    /\ bf_pc = "idle"
    /\ bf_impl \in {"none", "utils"}
    /\ lk_pc[Self] = "idle"
    /\ n_runs < MaxRuns
    /\ n_runs' = n_runs + 1
    /\ run_store0' = store
    /\ bf_impl' = "utils"
    /\ all_new_data' = <<>>
    /\ LET scan == ScanBack(0)
       IN IF scan.kind # "found"
          THEN \* IndexError of line 241 or ValueError of line 246 leave the function
               /\ bf_pc' = "done"
               /\ bf_result' = "raised"
               /\ bf_fail' = "resume"
               /\ last_timestamp' = 0
               /\ up_to_date' = FALSE
               /\ fetch_calls' = <<>>
               /\ UNCHANGED current_time
          ELSE /\ last_timestamp' = scan.ts
               /\ current_time' = epoch
               /\ bf_fail' = "none"
               /\ IF UpToDate(scan.ts, epoch)
                  THEN \* lines 252-254
                       /\ bf_pc' = "done"
                       /\ bf_result' = "True"
                       /\ up_to_date' = TRUE
                       /\ fetch_calls' = <<>>
                  ELSE \* lines 262-272: the request for the last days_needed days
                       /\ bf_pc' = "u_fetch"
                       /\ bf_result' = "none"
                       /\ up_to_date' = FALSE
                       /\ fetch_calls' = <<[from_ts |-> epoch - CeilDiv(epoch - scan.ts, DAY) * DAY,
                                            to_ts |-> epoch]>>
    /\ UNCHANGED <<failure_seen, failed_batches, epoch, src_points, src_overlap, current_ts, attempts>>
    /\ UNCHANGED <<avgVars, lockVars, normVars, rateVars, fetchVars, serverVars>>

\* line 262
days_needed == CeilDiv(current_time - last_timestamp, DAY)

\* the 'prices' of market_chart?days=days_needed: the last days_needed days
UtilsPrices == InRange(src_points, current_time - days_needed * DAY, current_time)

\* lines 296-313: one row per point, its Timestamp int(ts_ms / 1000)
RECURSIVE UtilsRows(_)
UtilsRows(prices) ==
    IF prices = <<>> THEN <<>>
    ELSE <<UtilsTimestamp(Head(prices))>> \o UtilsRows(Tail(prices))

\* lines 272-316 with a 200 response whose three lists are complete
UtilsFetchOk ==
    /\ bf_pc = "u_fetch"
    /\ IF UtilsPrices = <<>>
       THEN \* lines 289-291
            /\ bf_pc' = "done"
            /\ bf_result' = "True"
            /\ UNCHANGED all_new_data
       ELSE /\ all_new_data' = UtilsRows(UtilsPrices)
            /\ bf_pc' = "u_write"
            /\ UNCHANGED bf_result
    /\ UNCHANGED <<failure_seen, failed_batches, fetch_calls, up_to_date>>
    /\ UNCHANGED <<epoch, src_points, src_overlap, bf_impl, last_timestamp, current_time, current_ts,
                   attempts, bf_fail, n_runs, run_store0>>
    /\ UNCHANGED <<avgVars, lockVars, normVars, rateVars, fetchVars, serverVars>>

\* lines 272-283 and 314-316: how the request or the response can be bad.
\*   "request": requests.get raises RequestException      -> return False
\*   "status" : status_code != 200, line 275 raises Exception, which neither
\*              except clause of lines 278-283 catches      -> leaves the function
\*   "body"   : response.json() raises ValueError           -> return False
\*   "shape"  : market_caps or total_volumes is shorter than prices,
\*              IndexError at lines 298-299                 -> return False
UtilsFetchFails(kind) ==
    /\ bf_pc = "u_fetch"
    /\ (kind = "shape") => UtilsPrices # <<>>
    /\ bf_pc' = "done"
    /\ bf_fail' = kind
    /\ bf_result' = IF kind = "status" THEN "raised" ELSE "False"
    /\ failure_seen' = TRUE
    /\ UNCHANGED <<failed_batches, fetch_calls, up_to_date>>
    /\ UNCHANGED <<epoch, src_points, src_overlap, bf_impl, last_timestamp, current_time, current_ts,
                   all_new_data, attempts, n_runs, run_store0>>
    /\ UNCHANGED <<avgVars, lockVars, normVars, rateVars, fetchVars, serverVars>>

\* lines 318-325: new_df.to_csv(raw_data_path, mode='a'), no file_lock
UtilsWrite ==
    /\ bf_pc = "u_write"
    /\ store' = store \o all_new_data
    /\ bf_pc' = "done"
    /\ bf_result' = "True"
    /\ UNCHANGED <<failure_seen, failed_batches, fetch_calls, up_to_date>>
    /\ UNCHANGED <<epoch, src_points, src_overlap, bf_impl, last_timestamp, current_time, current_ts,
                   all_new_data, attempts, bf_fail, n_runs, run_store0>>
    /\ UNCHANGED <<lk_path, lk_owner, lk_pc, lk_fd, lk_exc, to_write, n_appends, lk_log, lk_timeout, lk_waited>>
    /\ UNCHANGED <<avgVars, normVars, rateVars, fetchVars, serverVars>>

\* lines 326-328: the write raises IOError/OSError
UtilsWriteFails ==
    /\ bf_pc = "u_write"
    /\ bf_pc' = "done"
    /\ bf_result' = "False"
    /\ bf_fail' = "append"
    /\ failure_seen' = TRUE
    /\ UNCHANGED <<failed_batches, fetch_calls, up_to_date>>
    /\ UNCHANGED <<epoch, src_points, src_overlap, bf_impl, last_timestamp, current_time, current_ts,
                   all_new_data, attempts, n_runs, run_store0>>
    /\ UNCHANGED <<avgVars, lockVars, normVars, rateVars, fetchVars, serverVars>>

-----------------------------------------------------------------------------
(* The rate limiter: HistoricalDataManager._wait_for_rate_limit             *)
(* (historical_manager.py lines 39-44), called by threads that share one    *)
(* manager.  Time is counted in half seconds.                              *)

\* MIN_REQUEST_INTERVAL = 1.5 seconds, i.e. 3 half seconds
MIN_REQUEST_INTERVAL == 3

MaxClock == 14
MaxAcquires == 4

Callers == 1..NProcs

\* calls that are under way
Waiting == {t \in Callers : rl_pc[t] # "idle"}

\* the manager was constructed (last_request_time = 0) long before the first
\* call: time.time() is far above 0
RateInit ==
    /\ clock = MIN_REQUEST_INTERVAL
    /\ last_request_time = 0
    /\ rl_pc = [t \in Callers |-> "idle"]
    /\ rl_wake = [t \in Callers |-> 0]
    /\ rl_returns = <<>>

\* lines 41-43: elapsed is computed from the shared last_request_time; the
\* caller sleeps when it is below the interval
WaitStart(t) ==
    /\ rl_pc[t] = "idle"
    /\ Len(rl_returns) + Cardinality(Waiting) < MaxAcquires
    /\ LET elapsed == clock - last_request_time
       IN IF elapsed < MIN_REQUEST_INTERVAL
          THEN /\ rl_pc' = [rl_pc EXCEPT ![t] = "sleep"]
               /\ rl_wake' = [rl_wake EXCEPT ![t] = clock + (MIN_REQUEST_INTERVAL - elapsed)]
          ELSE /\ rl_pc' = [rl_pc EXCEPT ![t] = "record"]
               /\ UNCHANGED rl_wake
    /\ UNCHANGED <<clock, last_request_time, rl_returns>>
    /\ UNCHANGED <<avgVars, lockVars, bfVars, normVars, fetchVars, serverVars>>

\* line 43: time.sleep returns, not before the time asked for
WaitWake(t) ==
    /\ rl_pc[t] = "sleep"
    /\ clock >= rl_wake[t]
    /\ rl_pc' = [rl_pc EXCEPT ![t] = "record"]
    /\ UNCHANGED <<clock, last_request_time, rl_wake, rl_returns>>
    /\ UNCHANGED <<avgVars, lockVars, bfVars, normVars, fetchVars, serverVars>>

\* line 44: self.last_request_time = time.time(), and the call returns
WaitRecord(t) ==
    /\ rl_pc[t] = "record"
    /\ last_request_time' = clock
    /\ rl_returns' = Append(rl_returns, clock)
    /\ rl_pc' = [rl_pc EXCEPT ![t] = "idle"]
    /\ UNCHANGED <<clock, rl_wake>>
    /\ UNCHANGED <<avgVars, lockVars, bfVars, normVars, fetchVars, serverVars>>

\* half a second passes
ClockTick ==
    /\ clock < MaxClock
    /\ clock' = clock + 1
    /\ UNCHANGED <<last_request_time, rl_pc, rl_wake, rl_returns>>
    /\ UNCHANGED <<avgVars, lockVars, bfVars, normVars, fetchVars, serverVars>>

-----------------------------------------------------------------------------
(* fetch_historical_batch (historical_manager.py lines 46-76): the body is  *)
(* decorated with backoff.on_exception(expo, (RequestException, ValueError),*)
(* max_tries=MAX_RETRIES); get_missing_data calls it once per batch.  The   *)
(* thread that runs it is the only caller of the limiter.                   *)

\* time.sleep(60) of line 64, in half seconds (120), scaled to 4: longer than
\* MIN_REQUEST_INTERVAL, as in the source
COOLDOWN == 4

\* how an attempt can fail: line 62 (HTTP 429), line 67 (another status that
\* is not 200), line 73 (a body without 'prices')
FailKinds == {"429", "status", "body"}

\* the exception each failure raises (lines 65, 68, 74)
ExceptionOf(kind) == IF kind = "body" THEN "ValueError" ELSE "RequestException"

\* line 48: the exceptions backoff retries on
Retryable(exc) == exc \in {"RequestException", "ValueError"}

FetchIdle ==
    /\ ft_pc = "idle"
    /\ ft_calls = 0
    /\ ft_tries = 0
    /\ ft_reqs = 0
    /\ ft_kinds = <<>>
    /\ ft_result = "none"
    /\ ft_wake = 0
    /\ n_entered = 0
    /\ n_requests = 0

\* line 122: get_missing_data calls fetch_historical_batch for a batch;
\* backoff invokes the body for the first time
FetchCall ==
    /\ ft_pc = "idle"
    /\ n_entered < MaxAcquires
    /\ ft_pc' = "acquire"
    /\ ft_calls' = ft_calls + 1
    /\ ft_tries' = 1
    /\ ft_reqs' = 0
    /\ ft_kinds' = <<>>
    /\ ft_result' = "none"
    /\ n_entered' = n_entered + 1
    /\ UNCHANGED <<ft_wake, n_requests>>
    /\ UNCHANGED <<avgVars, lockVars, bfVars, normVars, rateVars, serverVars>>

\* line 53: self._wait_for_rate_limit(), the first statement of the body
FetchAcquire ==
    /\ ft_pc = "acquire"
    /\ Len(rl_returns) < n_entered
    /\ \/ WaitStart(Self)
       \/ WaitWake(Self)
       \/ WaitRecord(Self)

\* line 53 returned: the body goes on to lines 55-61
FetchAcquired ==
    /\ ft_pc = "acquire"
    /\ rl_pc[Self] = "idle"
    /\ Len(rl_returns) = n_entered
    /\ ft_pc' = "request"
    /\ UNCHANGED <<ft_calls, ft_tries, ft_reqs, ft_kinds, ft_result, ft_wake, n_entered, n_requests>>
    /\ UNCHANGED <<avgVars, lockVars, bfVars, normVars, rateVars, serverVars>>

\* lines 61-76 with a 200 response that has 'prices': the call returns
FetchOk ==
    /\ ft_pc = "request"
    /\ ft_reqs' = ft_reqs + 1
    /\ n_requests' = n_requests + 1
    /\ ft_result' = "ok"
    /\ ft_pc' = "idle"
    /\ UNCHANGED <<ft_calls, ft_tries, ft_kinds, ft_wake, n_entered>>
    /\ UNCHANGED <<avgVars, lockVars, bfVars, normVars, rateVars, serverVars>>

\* lines 61-74 with a response that makes the body raise; a 429 sleeps first
FetchFails(kind) ==
    /\ ft_pc = "request"
    /\ ft_reqs' = ft_reqs + 1
    /\ n_requests' = n_requests + 1
    /\ ft_kinds' = Append(ft_kinds, kind)
    /\ IF kind = "429"
       THEN /\ ft_pc' = "cooldown"
            /\ ft_wake' = clock + COOLDOWN
       ELSE /\ ft_pc' = "raise"
            /\ UNCHANGED ft_wake
    /\ UNCHANGED <<ft_calls, ft_tries, ft_result, n_entered>>
    /\ UNCHANGED <<avgVars, lockVars, bfVars, normVars, rateVars, serverVars>>

\* line 64 returns, line 65 raises
FetchCooldownEnds ==
    /\ ft_pc = "cooldown"
    /\ clock >= ft_wake
    /\ ft_pc' = "raise"
    /\ UNCHANGED <<ft_calls, ft_tries, ft_reqs, ft_kinds, ft_result, ft_wake, n_entered, n_requests>>
    /\ UNCHANGED <<avgVars, lockVars, bfVars, normVars, rateVars, serverVars>>

\* a backoff that retries whatever the number of tries made
FetchBackoffNoCap ==
    /\ ft_pc = "raise"
    /\ ft_pc' = "backoff"
    /\ UNCHANGED ft_result
    /\ UNCHANGED <<ft_calls, ft_tries, ft_reqs, ft_kinds, ft_wake, n_entered, n_requests>>
    /\ UNCHANGED <<avgVars, lockVars, bfVars, normVars, rateVars, serverVars>>

\* lines 46-50: backoff catches the exception; it gives up (re-raises to
\* get_missing_data) when the exception is not one it retries on or when
\* max_tries invocations were made, and sleeps before the next one otherwise
FetchBackoff ==
    /\ ft_pc = "raise"
    /\ IF Retryable(ExceptionOf(ft_kinds[Len(ft_kinds)])) /\ ft_tries < MAX_RETRIES
       THEN /\ ft_pc' = "backoff"
            /\ UNCHANGED ft_result
       ELSE /\ ft_pc' = "idle"
            /\ ft_result' = "raised"
    /\ UNCHANGED <<ft_calls, ft_tries, ft_reqs, ft_kinds, ft_wake, n_entered, n_requests>>
    /\ UNCHANGED <<avgVars, lockVars, bfVars, normVars, rateVars, serverVars>>

\* a retry that resumes at the request, past line 53
FetchRetrySkipsAcquire ==
    /\ ft_pc = "backoff"
    /\ n_entered < MaxAcquires
    /\ ft_pc' = "request"
    /\ ft_tries' = ft_tries + 1
    /\ n_entered' = n_entered + 1
    /\ UNCHANGED <<ft_calls, ft_reqs, ft_kinds, ft_result, ft_wake, n_requests>>
    /\ UNCHANGED <<avgVars, lockVars, bfVars, normVars, rateVars, serverVars>>

\* backoff's sleep (of any length: expo with jitter) is over and it invokes
\* the body again, from its first line
FetchRetry ==
    /\ ft_pc = "backoff"
    /\ n_entered < MaxAcquires
    /\ ft_pc' = "acquire"
    /\ ft_tries' = ft_tries + 1
    /\ n_entered' = n_entered + 1
    /\ UNCHANGED <<ft_calls, ft_reqs, ft_kinds, ft_result, ft_wake, n_requests>>
    /\ UNCHANGED <<avgVars, lockVars, bfVars, normVars, rateVars, serverVars>>

-----------------------------------------------------------------------------
(* server.py: update_price (lines 104-119), run every minute by the         *)
(* scheduler on the PriceManager that initialize_server built (line 150, a  *)
(* local variable of that function), and the two endpoints (lines 122-131), *)
(* which read the module-level price_manager of line 56.                    *)

\* a response is kept with the number of updates made when it was given
\* (after); -1: no response was given yet
NoPriceResponse == [price |-> 0, after |-> -1]

NoAveragesResponse == [MA111 |-> NoneMA, MA350 |-> NoneMA, after |-> -1]

\* the module-level price_manager = PriceManager() of line 56, and the
\* endpoints before any request
ServerIdle ==
    /\ latest_price = 0
    /\ g_latest_price = 0
    /\ g_moving_averages = [MA111 |-> NoneMA, MA350 |-> NoneMA]
    /\ api_price = NoPriceResponse
    /\ api_mas = NoAveragesResponse
    /\ tick_result = "none"
    /\ processed_rows = 0

\* update_price(price_manager) with a price from get_latest_price: line 108
\* sets latest_price, line 109 updates the averages, lines 112-115 append a
\* row to the processed CSV (wrote: the write did not raise); every
\* exception is logged by lines 118-119
update_price(new_price, wrote) ==
    /\ latest_price' = new_price
    /\ update_moving_averages(TRUE, new_price)
    /\ IF upd_result' # "ok"
       THEN /\ tick_result' = "update failed"
            /\ UNCHANGED processed_rows
       ELSE IF wrote
       THEN /\ tick_result' = "ok"
            /\ processed_rows' = processed_rows + 1
       ELSE /\ tick_result' = "write failed"
            /\ UNCHANGED processed_rows
    /\ UNCHANGED <<g_latest_price, g_moving_averages, api_price, api_mas>>

\* update_price when get_latest_price raises (line 102): nothing is updated
update_price_no_price ==
    /\ tick_result' = "no price"
    /\ UNCHANGED <<latest_price, processed_rows, g_latest_price, g_moving_averages,
                   api_price, api_mas>>
    /\ UNCHANGED <<avgVars, lockVars, bfVars, normVars, rateVars, fetchVars>>

\* /api/latest-price, lines 122-127: latest_price of the module-level
\* price_manager (the 'timestamp' of the response is left out)
api_latest_price ==
    /\ api_price' = [price |-> g_latest_price, after |-> n_updates]
    /\ UNCHANGED <<latest_price, g_latest_price, g_moving_averages, api_mas, tick_result,
                   processed_rows>>
    /\ UNCHANGED <<avgVars, lockVars, bfVars, normVars, rateVars, fetchVars>>

\* /api/latest-moving-averages, lines 129-131: the module-level price_manager
api_latest_moving_averages ==
    /\ api_mas' = [MA111 |-> g_moving_averages.MA111, MA350 |-> g_moving_averages.MA350,
                   after |-> n_updates]
    /\ UNCHANGED <<latest_price, g_latest_price, g_moving_averages, api_price, tick_result,
                   processed_rows>>
    /\ UNCHANGED <<avgVars, lockVars, bfVars, normVars, rateVars, fetchVars>>

-----------------------------------------------------------------------------
(* Specifications                                                          *)

AvgIdle ==
    /\ prices_is_None = TRUE
    /\ prices_350d = <<>>
    /\ sum_350 = 0
    /\ sum_111 = 0
    /\ moving_averages = [MA111 |-> NoneMA, MA350 |-> NoneMA]
    /\ n_updates = 0
    /\ upd_result = "none"
    /\ upd_isnum = TRUE
    /\ upd_len_before = 0

RateIdle ==
    /\ clock = 0
    /\ last_request_time = 0
    /\ rl_pc = [t \in Callers |-> "idle"]
    /\ rl_wake = [t \in Callers |-> 0]
    /\ rl_returns = <<>>

InitAvg == PriceManagerInit /\ LockIdle /\ store = <<>> /\ BackfillIdle /\ NormIdle /\ RateIdle /\ FetchIdle /\ ServerIdle

\* update_moving_averages called on a PriceManager of its own
PriceManagerUpdate(isnum, p) == update_moving_averages(isnum, p) /\ UNCHANGED serverVars

NextAvg == \E isnum \in BOOLEAN, p \in Prices : PriceManagerUpdate(isnum, p)

SpecAvg == InitAvg /\ [][NextAvg]_vars

\* several processes appending one row each to the same store
InitLock == AvgIdle /\ LockIdle /\ store = <<>> /\ BackfillIdle /\ NormIdle /\ RateIdle /\ FetchIdle /\ ServerIdle

LockClientAppend(p) == append_to_csv(p, <<T0 + p>>) /\ UNCHANGED bfVars

NextLock == \E p \in Procs : LockClientAppend(p) \/ file_lock(p)

SpecLock == InitLock /\ [][NextLock]_vars

\* several processes writing under file_lock with or without a timeout
NextLockTimeout ==
    \E p \in Procs :
        \/ \E timeout \in 0..MaxTimeout : file_lock_with_timeout(p, <<T0 + p>>, timeout)
        \/ file_lock(p)
        \/ LockBlocked(p)

SpecLockTimeout == InitLock /\ [][NextLockTimeout]_vars

\* one process running backfills against one store, every run with the same
\* implementation (the manager's or utils'); a run follows the previous one
\* at once, so that all runs of a behaviour read the same clock value
InitBackfill == AvgIdle /\ LockIdle /\ BackfillInit /\ NormIdle /\ RateIdle /\ FetchIdle /\ ServerIdle

NextBackfill ==
    \/ ManagerStart
    \/ ManagerFetchOk
    \/ ManagerFetchFails
    \/ ManagerBadPoint
    \/ ManagerAppend
    \/ file_lock(Self)
    \/ ManagerAppended
    \/ UtilsStart
    \/ UtilsFetchOk
    \/ \E kind \in {"request", "status", "body", "shape"} : UtilsFetchFails(kind)
    \/ UtilsWrite
    \/ UtilsWriteFails
    \/ RunReturns

SpecBackfill == InitBackfill /\ [][NextBackfill]_vars

\* runs of the manager on their own: the source holds at most one point, and
\* answers each batch with its points, with an error or with a malformed point
InitManagerRun ==
    /\ InitBackfill
    /\ src_points \in {<<>>, <<(T0 + MINUTE) * MS_PER_SEC>>}

\* the steps of a run that has started: the thread that runs
\* get_missing_data goes on until the function returns
ManagerRunStep ==
    \/ ManagerFetchOk
    \/ ManagerFetchFails
    \/ ManagerBadPoint
    \/ ManagerAppend
    \/ file_lock(Self)
    \/ ManagerAppended

NextManagerRun ==
    \/ ManagerStart
    \/ ManagerFetchOk
    \/ ManagerFetchFails
    \/ ManagerBadPoint
    \/ ManagerAppend
    \/ file_lock(Self)
    \/ ManagerAppended
    \/ RunReturns

\* every request is answered and no other process holds the lock for ever,
\* so a run that can take a step takes one
SpecManagerRun == InitManagerRun /\ [][NextManagerRun]_vars /\ WF_vars(ManagerRunStep)

\* raw timestamps normalized on their own
InitNorm ==
    /\ AvgIdle /\ LockIdle /\ store = <<>> /\ BackfillIdle /\ RateIdle /\ FetchIdle /\ ServerIdle
    /\ nz_raw \in 0..MaxRaw
    /\ nz_once = -1
    /\ nz_twice = -1
    /\ nz_as_ms = -1

NextNorm == NormOnce \/ NormTwice \/ NormAsMs

SpecNorm == InitNorm /\ [][NextNorm]_vars

\* threads calling _wait_for_rate_limit of one manager
InitRate ==
    /\ AvgIdle /\ LockIdle /\ store = <<>> /\ BackfillIdle /\ NormIdle /\ RateInit
    /\ FetchIdle /\ ServerIdle

NextRate ==
    \/ \E t \in Callers : WaitStart(t) \/ WaitWake(t) \/ WaitRecord(t)
    \/ ClockTick

SpecRate == InitRate /\ [][NextRate]_vars

\* one thread fetching batch after batch through the limiter, at any pace
InitFetch ==
    /\ AvgIdle /\ LockIdle /\ store = <<>> /\ BackfillIdle /\ NormIdle /\ RateInit
    /\ FetchIdle /\ ServerIdle

NextFetch ==
    \/ FetchCall
    \/ FetchAcquire
    \/ FetchAcquired
    \/ FetchOk
    \/ \E kind \in FailKinds : FetchFails(kind)
    \/ FetchCooldownEnds
    \/ FetchBackoff
    \/ FetchRetry
    \/ ClockTick

SpecFetch == InitFetch /\ [][NextFetch]_vars

\* the server after initialize_server: the scheduler's PriceManager was built
\* from MA350_WINDOW prices (load_initial_prices returns that many or
\* raises), ticks and requests come in any order
InitServer ==
    /\ PriceManagerInit
    /\ ~prices_is_None
    /\ Len(prices_350d) = MA350_WINDOW
    /\ LockIdle /\ store = <<>> /\ BackfillIdle /\ NormIdle /\ RateIdle /\ FetchIdle
    /\ ServerIdle

NextServer ==
    \/ \E p \in Prices, wrote \in BOOLEAN : update_price(p, wrote)
    \/ update_price_no_price
    \/ api_latest_price
    \/ api_latest_moving_averages

SpecServer == InitServer /\ [][NextServer]_vars

-----------------------------------------------------------------------------
(* Claims                                                                  *)

\* C3: after each update that returns normally, sum_short is the sum of the
\* last W_short buffer elements and MA_short is their arithmetic mean.
C3_MAShortIsMean ==
    upd_result = "ok" =>
        /\ sum_111 = SumSeq(LastN(prices_350d, MA111_WINDOW))
        /\ moving_averages.MA111 =
              [num |-> SumSeq(LastN(prices_350d, MA111_WINDOW)), den |-> MA111_WINDOW]

\* C6: an update called on an averager that does not hold W_long prices (no
\* buffer, or a buffer below capacity) fails with the insufficient-data
\* ValueError and with nothing else.
C6_InsufficientDataRaised ==
    (n_updates > 0 /\ upd_isnum /\ upd_len_before < MA350_WINDOW) =>
        upd_result = "ValueError: Not enough data points"

\* C2: at most one process is inside the locked body at any time.
C2_AtMostOneInBody == Cardinality({p \in Procs : InBody(p)}) <= 1

\* the rows of the store that have a Timestamp
RECURSIVE ValidRows(_)
ValidRows(rows) ==
    IF rows = <<>> THEN <<>>
    ELSE (IF Head(rows) = BadRow THEN <<>> ELSE <<Head(rows)>>) \o ValidRows(Tail(rows))

StrictlyIncreasing(ts) == \A i \in 1..(Len(ts) - 1) : ts[i] < ts[i + 1]

\* C1: the timestamps of the persisted store are strictly increasing in every
\* state, whatever backfill ran and whatever the source returned (every store
\* a run starts from is strictly increasing).
C1_StoreStrictlyIncreasing == StrictlyIncreasing(ValidRows(store))

\* C5: in a run of the manager no collected row has a stored Timestamp that
\* is not strictly greater than last_ts.
C5_NoRowAtOrBeforeLast ==
    bf_impl = "manager" =>
        \A i \in 1..Len(all_new_data) : all_new_data[i] > last_timestamp

\* C7: the second of two runs in a row appends nothing: when it is over the
\* store is what it was when it started.  Nobody else writes between the
\* runs, both runs are made at the same instant against a source that holds
\* the same points and answers every request the same way.  The claim also
\* covers a first run in which a batch failed; the runs looked at here are
\* the ones in which nothing failed at all, the case the claim cannot lose.
C7_SecondRunAppendsNothing ==
    (n_runs = 2 /\ bf_pc = "done" /\ ~failure_seen) => store = run_store0

\* C9: a run that failed returned False (it did not raise) and left the store
\* as it found it.
C9_FailedRunReturnsFalse ==
    (bf_pc = "done" /\ bf_fail # "none") =>
        (bf_result = "False" /\ store = run_store0)

\* C10: every step that writes to the store is taken by a writer that holds
\* the exclusive lock of the store's lock file.
C10_WritesUnderLock == [][store' # store => HoldsLock(Self)]_vars

\* C4: any two calls of the shared limiter return at least MIN_INTERVAL apart.
C4_ReturnsSpaced ==
    \A i \in 1..Len(rl_returns) : \A j \in 1..Len(rl_returns) :
        i < j => rl_returns[j] - rl_returns[i] >= MIN_REQUEST_INTERVAL

PlausibleSeconds(s) == s <= MILLISECONDS_THRESHOLD /\ s * MS_PER_SEC > MILLISECONDS_THRESHOLD

HoldsNoLock(p) == \A i \in Inodes : lk_owner[i] # p

\* process p is releasing: the finally clause of file_lock, lines 39-45
Releasing(p) == lk_pc[p] \in {"unlock", "close", "remove"}

\* C11: when the with-statement of file_lock is left, by a normal return or
\* by the exception the write raised, the process holds no lock any more; and
\* no step of the release changes the store or the exception that is on its
\* way to the caller (an error while releasing is logged, not raised, and the
\* write that succeeded stays).
C11_ReleasedOnEveryExit ==
    /\ [](\A p \in Procs : lk_pc[p] \in {"returned", "idle"} => HoldsNoLock(p))
    /\ [][\A p \in Procs : (Releasing(p) /\ lk_pc'[p] # lk_pc[p]) =>
             (store' = store /\ lk_exc'[p] = lk_exc[p])]_vars

\* C11 witness: a process wrote its row under the lock, its release failed
\* (the lock file was gone, which was logged), and it is back in the caller
\* with no exception, no lock, and its row in the store
C11_Witness ==
    \E p \in Procs :
        /\ lk_pc[p] = "returned"
        /\ lk_log[p] = "FileNotFoundError"
        /\ lk_exc[p] = "none"
        /\ HoldsNoLock(p)
        /\ \E i \in 1..Len(store) : store[i] = T0 + p

\* a batch of the current run failed terminally
BatchFailedInThisRun == \E b \in failed_batches : b.run = n_runs

\* C12: in a run of the manager, the step at which a batch fails terminally
\* moves the cursor to batch_end + 60 as a successful batch does, keeps the
\* rows collected so far, does not end the run as a failure, and goes on to
\* fetch the next batch when there is one; and a run in which a batch failed
\* (and whose append did not fail) returns True with the rows of its
\* successful batches appended, sorted, to the store.
C12_FailedBatchDoesNotAbort ==
    /\ [][failed_batches' # failed_batches =>
            /\ current_ts' = BatchEnd + MINUTE
            /\ all_new_data' = all_new_data
            /\ bf_result' \notin {"False", "raised"}
            /\ (current_ts' < current_time => bf_pc' = "fetch")]_vars
    /\ []((bf_impl = "manager" /\ bf_pc = "done" /\ bf_fail = "none" /\ BatchFailedInThisRun) =>
            /\ bf_result = "True"
            /\ store = run_store0 \o SortByTimestamp(all_new_data))

\* C12 witness: the first batch of a run failed terminally, a later batch of
\* the same run was fetched and gave rows, the rows were appended and the run
\* returned True
C12_Witness ==
    /\ bf_impl = "manager"
    /\ bf_pc = "done"
    /\ bf_result = "True"
    /\ \E b \in failed_batches : b.run = n_runs /\ b.from_ts = last_timestamp + MINUTE
    /\ all_new_data # <<>>
    /\ store = run_store0 \o SortByTimestamp(all_new_data)

\* C13: a response of either endpoint that was given after a tick was pushed
\* successfully (and before any further update) carries that tick's values:
\* the MA_short and MA_long the update computed and the price of the tick.
C13_AccessorsReadTickState ==
    /\ (tick_result = "ok" /\ api_mas.after = n_updates) =>
            /\ api_mas.MA111 = moving_averages.MA111
            /\ api_mas.MA350 = moving_averages.MA350
    /\ (tick_result = "ok" /\ api_price.after = n_updates) =>
            api_price.price = latest_price

\* C14: with one caller, consecutive returns of _wait_for_rate_limit are at
\* least MIN_REQUEST_INTERVAL apart whatever the pace of the calls, and every
\* request of fetch_historical_batch, those of the retries too, is made after
\* an acquire of its own: when a request is made, one more acquire has
\* returned than requests were made before.
C14_SingleCallerSpacedAndAcquired ==
    /\ [](\A i \in 1..(Len(rl_returns) - 1) :
            rl_returns[i + 1] - rl_returns[i] >= MIN_REQUEST_INTERVAL)
    /\ [][n_requests' # n_requests => Len(rl_returns) = n_requests + 1]_vars

\* C14 witness: a batch was retried, each of its requests after an acquire of
\* its own, and the limiter made the retry wait: its acquire returned exactly
\* MIN_REQUEST_INTERVAL after the one before
C14_Witness ==
    /\ ft_tries >= 2
    /\ n_requests >= 2
    /\ n_requests = Len(rl_returns)
    /\ \E i \in 1..(Len(rl_returns) - 1) :
            rl_returns[i + 1] - rl_returns[i] = MIN_REQUEST_INTERVAL

\* C15: a run that determined its resume point takes the store for up to
\* date exactly when now - last_ts < 60, and then it asks the source for
\* nothing (so it never waits for the limiter either), collects and appends
\* no row, leaves the store as it found it and returns True.
C15_UpToDateIffGapBelowMinute ==
    (n_runs > 0 /\ bf_fail # "resume") =>
        /\ up_to_date <=> (current_time - last_timestamp < MINUTE)
        /\ up_to_date =>
              /\ bf_pc \in {"done", "idle"}
              /\ bf_result = "True"
              /\ fetch_calls = <<>>
              /\ all_new_data = <<>>
              /\ store = run_store0

\* C15 witness: a run found a store whose last row is one second less than a
\* minute old, and returned True at once
C15_Witness ==
    /\ bf_pc = "done"
    /\ up_to_date
    /\ store # <<>>
    /\ current_time - last_timestamp = MINUTE - 1
    /\ bf_result = "True"
    /\ store = run_store0

\* the range last_ts + 60 .. now of the manager's current run is not empty
\* and is at most one batch wide
FitsInOneBatch ==
    /\ last_timestamp + MINUTE < current_time
    /\ current_time <= last_timestamp + MINUTE + BATCH_SIZE * MINUTE

\* C16: a run of the manager whose range fits in one batch and in which no
\* fetch failed makes exactly one call of fetch_historical_batch, for
\* from = last_ts + 60 and to = now (nothing of the range is left out).
C16_OneFetchForSmallGap ==
    (/\ bf_impl = "manager"
     /\ bf_fail # "resume"
     /\ ~up_to_date
     /\ FitsInOneBatch
     /\ ~BatchFailedInThisRun) =>
        fetch_calls = <<[from_ts |-> last_timestamp + MINUTE, to_ts |-> current_time]>>

\* C16 witness: such a run is over: its one call, for the whole range,
\* succeeded, its rows were appended and it returned True
C16_Witness ==
    /\ bf_impl = "manager"
    /\ bf_pc = "done"
    /\ bf_result = "True"
    /\ FitsInOneBatch
    /\ ~BatchFailedInThisRun
    /\ fetch_calls = <<[from_ts |-> last_timestamp + MINUTE, to_ts |-> current_time]>>
    /\ all_new_data # <<>>
    /\ store = run_store0 \o SortByTimestamp(all_new_data)

\* C17: a file_lock call that was given a timeout and has been blocked for
\* longer than the timeout is over, with TimeoutError.  (With timeout None the
\* call blocks for as long as it takes.)
C17_TimeoutRaises ==
    \A p \in Procs :
        (lk_timeout[p] > 0 /\ lk_waited[p] > lk_timeout[p]) =>
            (lk_pc[p] # "flock" /\ lk_exc[p] = "TimeoutError")

\* the range of call c includes the whole range of batch b
Covers(c, b) == c.from_ts <= b.from_ts /\ b.to_ts <= c.to_ts

\* the Timestamp of the last row of a store (0 when there is none)
LastStored(rows) ==
    IF rows = <<>> THEN 0
    ELSE IF rows[Len(rows)] = BadRow THEN 0
    ELSE rows[Len(rows)]

\* C18: no call of a later run of the manager covers the range of a batch
\* that failed terminally in an earlier run, whatever became of the other
\* batches of that run.
C18_FailedBatchNeverRefetched ==
    bf_impl = "manager" =>
        \A b \in failed_batches : \A i \in 1..Len(fetch_calls) :
            b.run < n_runs => ~Covers(fetch_calls[i], b)

\* C18 (amended): no call of a later run of the manager covers the range of
\* a batch that failed terminally in an earlier run, provided the store that
\* the later run starts from ends with a Timestamp greater than the start of
\* the failed batch less 60 s (a row that late was appended since).
C18_FailedBatchNotRefetchedOnceStoreAdvanced ==
    bf_impl = "manager" =>
        \A b \in failed_batches : \A i \in 1..Len(fetch_calls) :
            (b.run < n_runs /\ LastStored(run_store0) + MINUTE > b.from_ts) =>
                ~Covers(fetch_calls[i], b)

\* C18 witness: the first batch of the first run failed terminally, a later
\* batch of that run gave rows that were appended, and the second run is
\* fetching, from the new resume point on
C18_Witness ==
    /\ bf_impl = "manager"
    /\ n_runs = 2
    /\ bf_pc = "fetch"
    /\ fetch_calls # <<>>
    /\ \E b \in failed_batches :
          /\ b.run = 1
          /\ LastStored(run_store0) + MINUTE > b.from_ts
          /\ \A i \in 1..Len(fetch_calls) : ~Covers(fetch_calls[i], b)


\* the last call of update_moving_averages had a number and started with a
\* buffer of exactly MA350_WINDOW prices
UpdatedWarm == n_updates > 0 /\ upd_isnum /\ upd_len_before = MA350_WINDOW

\* C19: after an update of an averager whose buffer held exactly W_long
\* prices, the buffer holds exactly W_long prices again, sum_long is the sum
\* of the buffer and MA_long = sum_long / W_long; the update drops the oldest
\* price, appends the new one and gives
\* sum_long_new = sum_long_old - oldest price + new price.
C19_WarmBufferSumAndMean ==
    /\ [](UpdatedWarm =>
            /\ upd_result = "ok"
            /\ Len(prices_350d) = MA350_WINDOW
            /\ sum_350 = SumSeq(prices_350d)
            /\ moving_averages.MA350 = [num |-> sum_350, den |-> MA350_WINDOW])
    /\ [][(n_updates' # n_updates /\ upd_isnum' /\ ~prices_is_None
             /\ Len(prices_350d) = MA350_WINDOW) =>
            /\ Len(prices_350d') = MA350_WINDOW
            /\ SubSeq(prices_350d', 1, MA350_WINDOW - 1) = Tail(prices_350d)
            /\ sum_350' = sum_350 - Head(prices_350d) + prices_350d'[MA350_WINDOW]]_vars

\* C19 witness: a buffer of W_long prices 1 was updated with the price 2:
\* sum_long = 1 * W_long - 1 + 2
C19_Witness ==
    /\ UpdatedWarm
    /\ n_updates = 1
    /\ prices_350d = [i \in 1..MA350_WINDOW |-> IF i = MA350_WINDOW THEN 2 ELSE 1]
    /\ sum_350 = 1 * MA350_WINDOW - 1 + 2
    /\ moving_averages.MA350 = [num |-> MA350_WINDOW + 1, den |-> MA350_WINDOW]


\* C20: one call of fetch_historical_batch makes at most MAX_RETRIES request
\* attempts; a 429 (after its cooldown), another non-200 status and a body
\* without 'prices' each use up one attempt of the same cap; the call raises
\* only when MAX_RETRIES attempts failed, and is then over, so that the next
\* batch can be called; a successful attempt ends the call; the next call
\* starts with a fresh counter.
C20_AtMostThreeAttemptsPerBatch ==
    /\ [](/\ ft_tries <= MAX_RETRIES
          /\ ft_reqs <= ft_tries
          /\ Len(ft_kinds) <= ft_reqs
          /\ (ft_result = "raised" =>
                /\ Len(ft_kinds) = MAX_RETRIES
                /\ ft_reqs = MAX_RETRIES
                /\ ft_pc = "idle")
          /\ (ft_result = "ok" => (ft_pc = "idle" /\ Len(ft_kinds) = ft_reqs - 1)))
    /\ [][/\ (n_requests' # n_requests => (ft_result = "none" /\ ft_reqs' = ft_reqs + 1))
          /\ (ft_kinds' # ft_kinds /\ ft_calls' = ft_calls => ft_reqs' = ft_reqs + 1)
          /\ (ft_calls' # ft_calls => (ft_tries' = 1 /\ ft_reqs' = 0 /\ ft_result' = "none"))]_vars

\* C20 witness: a call whose three attempts failed, one in each way, has
\* raised, and a further call can still be made
C20_Witness ==
    /\ ft_result = "raised"
    /\ ft_pc = "idle"
    /\ ft_reqs = MAX_RETRIES
    /\ {ft_kinds[i] : i \in 1..Len(ft_kinds)} = FailKinds
    /\ ft_kinds[1] = "429"
    /\ n_entered < MaxAcquires


\* the rows of s are in non-decreasing order
NonDecreasing(s) == \A i \in 1..(Len(s) - 1) : s[i] <= s[i + 1]

\* s and t hold the same rows, each as many times
SameRows(s, t) ==
    /\ Len(s) = Len(t)
    /\ \A i \in 1..Len(s) :
          Cardinality({j \in 1..Len(s) : s[j] = s[i]}) =
          Cardinality({j \in 1..Len(t) : t[j] = s[i]})

\* C21: a run of the manager writes to the store at most once, after the
\* loop over the batches is over and under the lock: the write appends all
\* the rows collected, in non-decreasing Timestamp order; the store is as
\* the run found it while batches are fetched, and a run that collected
\* nothing leaves it so.
C21_OneSortedLockedWriteAfterLoop ==
    /\ [][(bf_impl = "manager" /\ store' # store) =>
            /\ bf_pc = "appending"
            /\ HoldsLock(Self)
            /\ current_ts >= current_time
            /\ store = run_store0
            /\ all_new_data # <<>>
            /\ Len(store') = Len(store) + Len(all_new_data)
            /\ SubSeq(store', 1, Len(store)) = store
            /\ NonDecreasing(SubSeq(store', Len(store) + 1, Len(store')))
            /\ SameRows(SubSeq(store', Len(store) + 1, Len(store')), all_new_data)]_vars
    /\ []((bf_impl = "manager" /\ bf_pc \in {"fetch", "append"}) => store = run_store0)
    /\ []((bf_impl = "manager" /\ bf_pc = "done" /\ all_new_data = <<>>) => store = run_store0)

\* C21 witness: a run of two batches collected rows out of order and has
\* returned after writing them, sorted, behind the rows it found
C21_Witness ==
    /\ bf_impl = "manager"
    /\ bf_pc = "done"
    /\ bf_result = "True"
    /\ Len(fetch_calls) = 2
    /\ ~NonDecreasing(all_new_data)
    /\ store = run_store0 \o SortByTimestamp(all_new_data)
    /\ store # run_store0 \o all_new_data


\* the Timestamp of the most recent row that has one among the last LOOKBACK
\* rows (0 when there is none, or no row at all)
MostRecentValid(rows) ==
    LET valid == {i \in 1..Len(rows) : i > Len(rows) - LOOKBACK /\ rows[i] # BadRow}
    IN IF valid = {} THEN 0
       ELSE rows[CHOOSE i \in valid : \A j \in valid : j <= i]

\* C22: the resume point a run reads is the Timestamp of the most recent row
\* that has one among the last 10 rows of the store it starts from; when
\* there is none the run fails at the resume point, utils' reader with the
\* ValueError of its line 246; this for the manager's reader and for utils'.
C22_ResumePointTolerant ==
    (bf_impl # "none" /\ bf_pc # "idle") =>
        IF MostRecentValid(run_store0) # 0
        THEN /\ bf_fail # "resume"
             /\ last_timestamp = MostRecentValid(run_store0)
        ELSE /\ bf_fail = "resume"
             /\ bf_pc = "done"
             /\ bf_result \in {"False", "raised"}
             /\ (bf_impl = "utils" => ScanBack(0).kind = "ValueError")


\* the ranges asked for by the run start at last_timestamp + 60 and each
\* satisfies from < to <= now and to - from <= BATCH_SIZE * 60
RangesWithinBatch ==
    /\ (fetch_calls # <<>> => fetch_calls[1].from_ts = last_timestamp + MINUTE)
    /\ \A i \in 1..Len(fetch_calls) :
          /\ fetch_calls[i].from_ts < fetch_calls[i].to_ts
          /\ fetch_calls[i].to_ts <= current_time
          /\ fetch_calls[i].to_ts - fetch_calls[i].from_ts <= BATCH_SIZE * MINUTE

\* C23: in a run of the manager the cursor starts at last_ts + 60, every
\* requested range satisfies from < to <= now and to - from <= BATCH_SIZE * 60,
\* and the 'from' values of two consecutive calls differ by at most
\* BATCH_SIZE * 60 seconds.
C23_CursorStepsAtMostOneBatch ==
    bf_impl = "manager" =>
        /\ RangesWithinBatch
        /\ \A i \in 1..(Len(fetch_calls) - 1) :
              fetch_calls[i + 1].from_ts - fetch_calls[i].from_ts <= BATCH_SIZE * MINUTE

\* C23 (amended): in a run of the manager the cursor starts at last_ts + 60,
\* every requested range satisfies from < to <= now and
\* to - from <= BATCH_SIZE * 60, and each call after the first starts 60 s
\* after the end of the range before it, so that the 'from' values of two
\* consecutive calls differ by at most BATCH_SIZE * 60 + 60 seconds.
C23_CursorStepsAtMostOneBatchAndAMinute ==
    bf_impl = "manager" =>
        /\ RangesWithinBatch
        /\ \A i \in 1..(Len(fetch_calls) - 1) :
              /\ fetch_calls[i + 1].from_ts = fetch_calls[i].to_ts + MINUTE
              /\ fetch_calls[i + 1].from_ts - fetch_calls[i].from_ts <= BATCH_SIZE * MINUTE + MINUTE

\* C23 witness: a run made two calls, the first for a range of full width,
\* the second starting BATCH_SIZE * 60 + 60 seconds after the first did
C23_Witness ==
    /\ bf_impl = "manager"
    /\ Len(fetch_calls) = 2
    /\ fetch_calls[1].to_ts - fetch_calls[1].from_ts = BATCH_SIZE * MINUTE
    /\ fetch_calls[2].from_ts - fetch_calls[1].from_ts = BATCH_SIZE * MINUTE + MINUTE
    /\ fetch_calls[2].to_ts = current_time


\* C24: a call of update_moving_averages that fails (the price is not a
\* number, or the buffer is not at W_long capacity) leaves the buffer,
\* sum_long, sum_short and both moving averages as they were.
C24_FailedUpdateChangesNothing ==
    [][(n_updates' # n_updates /\ upd_result' # "ok") =>
          /\ prices_350d' = prices_350d
          /\ sum_350' = sum_350
          /\ sum_111' = sum_111
          /\ moving_averages' = moving_averages]_vars


\* C25: every run of the manager's get_missing_data reaches its end,
\* returning True or False: the clock is read once per run, every move of
\* the cursor is a move forward, and a batch is tried at most MAX_RETRIES
\* times.
C25_RunTerminates ==
    /\ ((bf_impl = "manager" /\ bf_pc # "idle") ~>
            (bf_pc = "done" /\ bf_result \in {"True", "False"}))
    /\ [](attempts < MAX_RETRIES)
    /\ [][(bf_pc # "idle" => current_time' = current_time)
          /\ (bf_pc = "fetch" /\ current_ts' # current_ts => current_ts' > current_ts)
          /\ (bf_pc = "fetch" /\ bf_pc' = "fetch" /\ current_ts' = current_ts =>
                attempts' = attempts + 1)]_vars

\* C25 witness: a run of two batches, one of which failed terminally and one
\* of which gave a row, has left the loop, written and returned
C25_Witness ==
    /\ bf_impl = "manager"
    /\ bf_pc = "done"
    /\ bf_result = "True"
    /\ Len(fetch_calls) = 2
    /\ current_ts >= current_time
    /\ BatchFailedInThisRun
    /\ store # run_store0

=============================================================================
